---- MODULE Spec2Model ----
(***************************************************************************)
(* Model of pdb_mol2_process.py: the mol2 template loader, the element     *)
(* classifier get_pdb_element, the pattern detector auto_detect_counts     *)
(* and the reconstruction loop of process_pdb.                             *)
(*                                                                         *)
(* A run of process_pdb goes through the control points                    *)
(*   "start"     nothing loaded yet; Start loads the template and reads    *)
(*               the input, or exits when one of the files is missing      *)
(*   "detect"    auto_detect_counts is running                             *)
(*   "loop"      both output files are open, the record loop is running    *)
(*   "exit"      the process has left through sys.exit(1)                  *)
(*   "finished"  process_pdb has returned                                  *)
(*                                                                         *)
(* Text is modelled as sequences of one-character strings, so that the     *)
(* column slicing, strip(), upper(), capitalize() and the fixed-column     *)
(* formatting of the source are computed and not assumed.  A PDB line is   *)
(* a record of the columns the program reads or writes:                    *)
(*   rec      columns  0..5   record keyword ("ATOM", "TER", "END")        *)
(*   serial   columns  6..10  (written, never read)                        *)
(*   name     columns 12..15  four characters                              *)
(*   resName  columns 17..19  three characters                             *)
(*   resSeq   columns 22..25  (written, never read)                        *)
(*   xcol     the column at which the three 8-character coordinate fields  *)
(*            start: 30 in a standard line, 29 in a line of the main       *)
(*            output, whose format string is one column short              *)
(*   xyz      the three coordinate fields, by what float() and "8.3f" do   *)
(*            with them:                                                   *)
(*              "num"   numbers that "8.3f" prints with a leading blank    *)
(*              "full"  numbers that "8.3f" prints over all 8 columns      *)
(*              "bad"   float() raises ValueError                          *)
(*   elemcol  columns 76..77  two characters, or <<>> when the line is     *)
(*            shorter than 78 characters                                   *)
(***************************************************************************)
EXTENDS Integers, Sequences, FiniteSets, TLC

\* ------------------------------------------------------------------------
\* Bounds of the model
\* ------------------------------------------------------------------------
MaxLen == 4

MaxN == 2

\* the synthetic streams: oligomers, ions and waters they are built from
MaxUnits == 3

MaxIons == 2

MaxWaters == 4
MaxIterations == 3
MaxMols == 2

\* ------------------------------------------------------------------------
\* Python string primitives
\* ------------------------------------------------------------------------
Lowers == << "a","b","c","d","e","f","g","h","i","j","k","l","m",
             "n","o","p","q","r","s","t","u","v","w","x","y","z" >>

Uppers == << "A","B","C","D","E","F","G","H","I","J","K","L","M",
             "N","O","P","Q","R","S","T","U","V","W","X","Y","Z" >>

IsLower(c) == \E i \in 1..26 : Lowers[i] = c

IsUpper(c) == \E i \in 1..26 : Uppers[i] = c

IsAlpha(c) == IsLower(c) \/ IsUpper(c)

ToUpper(c) == IF IsLower(c) THEN Uppers[CHOOSE i \in 1..26 : Lowers[i] = c] ELSE c

ToLower(c) == IF IsUpper(c) THEN Lowers[CHOOSE i \in 1..26 : Uppers[i] = c] ELSE c

upper(s) == [i \in 1..Len(s) |-> ToUpper(s[i])]

lower(s) == [i \in 1..Len(s) |-> ToLower(s[i])]

capitalize(s) == IF s = <<>> THEN <<>> ELSE <<ToUpper(s[1])>> \o lower(Tail(s))

RECURSIVE lstrip(_)
lstrip(s) == IF s # <<>> /\ Head(s) = " " THEN lstrip(Tail(s)) ELSE s

RECURSIVE rstrip(_)
rstrip(s) == IF s # <<>> /\ s[Len(s)] = " " THEN rstrip(SubSeq(s, 1, Len(s) - 1)) ELSE s

strip(s) == rstrip(lstrip(s))

startswith(s, p) == Len(s) >= Len(p) /\ SubSeq(s, 1, Len(p)) = p

\* re.sub(r'[^A-Za-z]', '', name)
alpha_only(s) == SelectSeq(s, IsAlpha)

Spaces(k) == [i \in 1..k |-> " "]

\* format(s, "^4s"): centred in four columns, the odd blank on the right
center4(s) ==
    IF Len(s) >= 4 THEN s
    ELSE Spaces((4 - Len(s)) \div 2) \o s \o Spaces((4 - Len(s)) - ((4 - Len(s)) \div 2))

\* format(s, "3s"): left-justified in three columns
ljust3(s) == IF Len(s) >= 3 THEN s ELSE s \o Spaces(3 - Len(s))

\* ------------------------------------------------------------------------
\* Template loader
\* ------------------------------------------------------------------------
\* One atom line of the mol2 atom block: field 2 (name) and field 6 (type).
Mol2Atoms ==
    { [name |-> <<"C","A">>, type |-> <<"c","3">>],
      [name |-> <<"H","1">>, type |-> <<"h","c">>] }

\* the atom blocks of the template files: up to MaxN atom lines, or none at
\* all (no line of the block has six fields)
Mol2Files == UNION { [1..n -> Mol2Atoms] : n \in 0..MaxN }

\* a file on disk: whether open() finds it, and its lines
File(ls) == [exists |-> TRUE, lines |-> ls]

Missing == [exists |-> FALSE, lines |-> <<>>]

mol2_element(type) ==
    LET atom_type == lower(type) IN
    IF startswith(atom_type, <<"c","l">>) THEN <<"C","l">>
    ELSE IF startswith(atom_type, <<"b","r">>) THEN <<"B","r">>
    ELSE IF startswith(atom_type, <<"n","a">>) THEN <<"N","a">>
    ELSE IF startswith(atom_type, <<"m","g">>) THEN <<"M","g">>
    ELSE IF startswith(atom_type, <<"f","e">>) THEN <<"F","e">>
    ELSE <<ToUpper(atom_type[1])>>

load_atom_names_from_mol2(mol2) ==
    [k \in 1..Len(mol2) |->
        [name |-> mol2[k].name, element |-> mol2_element(mol2[k].type)]]

\* ------------------------------------------------------------------------
\* Element classifier
\* ------------------------------------------------------------------------
get_pdb_element(line) ==
    LET elem == strip(line.elemcol)
        name == strip(line.name)
        e    == alpha_only(name)
    IN  IF Len(line.elemcol) > 0 /\ elem # <<>> THEN capitalize(elem)
        ELSE IF startswith(upper(e), <<"C","L">>) THEN <<"C","l">>
        ELSE IF startswith(upper(e), <<"B","R">>) THEN <<"B","r">>
        ELSE IF startswith(e, <<"H">>) THEN <<"H">>
        ELSE capitalize(e)

\* ------------------------------------------------------------------------
\* Pattern detector
\* ------------------------------------------------------------------------
ION_NAMES ==
    { <<"C","L","-">>, <<"C","L">>, <<"N","A">>, <<"N","A","+">>,
      <<"K">>, <<"K","+">>, <<"M","G">>, <<"M","G","2","+">> }

WATER_RES_NAMES ==
    { <<"W","A","T">>, <<"H","O","H">>, <<"S","O","L">>,
      <<"T","I","P","3">>, <<"T","P","3">> }

WATER_ATOM_NAMES == { <<"O">>, <<"O","W">>, <<"O","H","2">> }

water_pattern == << <<"O">>, <<"H">>, <<"H">> >>

pattern_names(lines, n) == [j \in 1..n |-> strip(lines[j].name)]

\* the inner for-loop of the oligomer scan at cursor idx (0-based)
olig_matches(lines, n, idx) ==
    \A j \in 1..n : strip(lines[idx + j].name) = pattern_names(lines, n)[j]

RECURSIVE scan_oligomers(_, _, _, _)
scan_oligomers(lines, n, idx, num) ==
    IF idx + n <= Len(lines) /\ olig_matches(lines, n, idx)
    THEN scan_oligomers(lines, n, idx + n, num + 1)
    ELSE <<num, idx>>

\* the names compared as they stand, without upper()
is_ion_case_sensitive(line) ==
    \/ strip(line.resName) \in ION_NAMES
    \/ strip(line.name) \in ION_NAMES

is_ion(line) ==
    \/ upper(strip(line.resName)) \in ION_NAMES
    \/ upper(strip(line.name)) \in ION_NAMES

is_water(line) ==
    \/ upper(strip(line.resName)) \in WATER_RES_NAMES
    \/ upper(strip(line.name)) \in WATER_ATOM_NAMES

RECURSIVE scan_ions(_, _, _)
scan_ions(lines, idx, num) ==
    IF idx < Len(lines) /\ is_ion(lines[idx + 1])
    THEN scan_ions(lines, idx + 1, num + 1)
    ELSE <<num, idx>>

water_matches(lines, k) ==
    \A j \in 1..3 : get_pdb_element(lines[k + j]) = water_pattern[j]

RECURSIVE scan_waters(_, _, _)
scan_waters(lines, k, num) ==
    IF k + 3 <= Len(lines) /\ water_matches(lines, k)
    THEN scan_waters(lines, k + 3, num + 1)
    ELSE num

\* the ion scan started at the first record instead of at the cursor
auto_detect_counts_rescan(lines, atoms_per_olig) ==
    IF Len(lines) < atoms_per_olig THEN <<0, 0, 0>>
    ELSE LET olig == scan_oligomers(lines, atoms_per_olig, 0, 0)
             ion  == scan_ions(lines, 0, 0)
             wat  == scan_waters(lines, ion[2], 0)
         IN  <<olig[1], ion[1], wat>>

auto_detect_counts(lines, atoms_per_olig) ==
    IF Len(lines) < atoms_per_olig THEN <<0, 0, 0>>
    ELSE LET olig == scan_oligomers(lines, atoms_per_olig, 0, 0)
             ion  == scan_ions(lines, olig[2], 0)
             wat  == scan_waters(lines, ion[2], 0)
         IN  <<olig[1], ion[1], wat>>

\* ------------------------------------------------------------------------
\* User configuration
\* ------------------------------------------------------------------------
MANUAL_NUM_OLIGOMERS == 64

MANUAL_NUM_IONS == 48

MANUAL_NUM_WATERS == 1624

\* ------------------------------------------------------------------------
\* Input structure files
\* ------------------------------------------------------------------------
InLine(name, res, xyz, elemcol) ==
    [rec |-> "ATOM", serial |-> 0, name |-> name, resName |-> res,
     resSeq |-> 0, xcol |-> 30, xyz |-> xyz, elemcol |-> elemcol]

\* The atom records an input file is built from: a carbon named CA with an
\* explicit element column, the same record with another element in that
\* column, a hydrogen, a water oxygen, a chloride and a sodium that leave the
\* element column out, and a record whose coordinates do not parse.  The
\* chloride has a coordinate that fills its eight columns.
PdbLines ==
    { InLine(<<" ","C","A"," ">>, <<"M","O","L">>, "num", <<" ","C">>),
      InLine(<<" ","C","A"," ">>, <<"M","O","L">>, "num", <<" ","N">>),
      InLine(<<" ","H","1"," ">>, <<"M","O","L">>, "num", <<>>),
      InLine(<<" ","O"," "," ">>, <<"W","A","T">>, "num", <<>>),
      InLine(<<"C","L"," "," ">>, <<"C","L"," ">>, "full", <<>>),
      InLine(<<"N","A"," "," ">>, <<"N","A"," ">>, "num", <<>>),
      InLine(<<" ","C","A"," ">>, <<"M","O","L">>, "bad", <<" ","C">>) }

Streams == UNION { [1..k -> PdbLines] : k \in 0..MaxLen }

\* line.startswith(("ATOM", "HETATM"))
IsAtomLine(l) == l.rec \in {"ATOM", "HETATM"}

\* line.startswith(("CRYST1", "REMARK", "COMPND", "HEADER", "TITLE", "AUTHOR"))
IsHeaderLine(l) == l.rec \in {"CRYST1", "REMARK", "COMPND", "HEADER", "TITLE", "AUTHOR"}

\* float(line[30:38]), float(line[38:46]), float(line[46:54]): what the three
\* slices can hold.  In a line whose fields start at column 29 each slice is
\* a field without its first character followed by the first character of what
\* comes next: the same number when the fields begin with a blank, otherwise
\* another number or no number at all.
read_coords(l) ==
    IF l.xcol = 30 \/ l.xyz # "full" THEN {l.xyz} ELSE {"num", "full", "bad"}

\* a line of a file as the column slices of the reader see it
as_read(l, c) == [l EXCEPT !.xyz = c, !.xcol = 30]

\* the lines of a list as the column slices of the reader can see them
RECURSIVE read_lines(_)
read_lines(atoms) ==
    IF atoms = <<>> THEN { <<>> }
    ELSE { <<as_read(Head(atoms), c)>> \o rest :
                c \in read_coords(Head(atoms)), rest \in read_lines(Tail(atoms)) }

\* the atom lines of file f as read by lines 186-201 and 246-249
Rereads(f) == read_lines(SelectSeq(f, IsAtomLine))

\* ------------------------------------------------------------------------
\* Record formatter
\* ------------------------------------------------------------------------
\* f"ATOM  {serial:5d} {name:^4s} {res:3s} {resnum:4d}    {x:8.3f}{y:8.3f}{z:8.3f}  1.00  0.00\n"
\* "ATOM  " 0..5, serial 6..10, name 12..15, residue name 17..19, residue
\* number 21..24, x 29..36, y 37..44, z 45..52; 65 characters and the newline,
\* so that the element columns 76..77 do not exist.
AtomLine(serial, name, res, resnum, xyz) ==
    [rec |-> "ATOM", serial |-> serial, name |-> center4(name), resName |-> ljust3(res),
     resSeq |-> resnum, xcol |-> 29, xyz |-> xyz, elemcol |-> <<>>]

Marker(kw) ==
    [rec |-> kw, serial |-> 0, name |-> <<>>, resName |-> <<>>,
     resSeq |-> 0, xcol |-> 0, xyz |-> "", elemcol |-> <<>>]

TER == Marker("TER")

END == Marker("END")

Msg(m, ln, expected, found) ==
    [msg |-> m, line |-> ln, expected |-> expected, found |-> found]

\* ------------------------------------------------------------------------
\* State of process_pdb
\* ------------------------------------------------------------------------
VARIABLES
    mol2_template,          \* the template file on disk
    input_pdb,              \* the input structure file on disk
    manual,                 \* the configuration block: MANUAL_NUM_OLIGOMERS, _IONS, _WATERS
    oligomer_info,          \* template: sequence of [name, element]
    header_lines,           \* the header lines of the input file
    atom_lines,             \* the ATOM/HETATM lines of the input file
    pc,                     \* "start", "detect", "loop", "exit" (sys.exit(1)), "finished"
    num_olig,               \* auto_detect_counts: oligomers counted by the scan
    detected,               \* what auto_detect_counts returned
    num_oligomers, num_ions, num_waters,
    f_extract,              \* lines written to extracted_oligomer.pdb
    f_extract_open,         \* the handle f_extract is open
    extracting,
    fout,                   \* lines written to the main output file
    fout_handle,            \* its handle: "none" (never opened), "open", "closed"
    atom_counter, residue_counter,
    current_mol_type, mol_idx, atom_in_mol_idx,
    current_residue_lines,  \* buffer of the residue being built
    line_num,               \* loop variable of enumerate(atom_lines, 1)
    stdout,                 \* messages printed
    run,                    \* 1: the given input, 2: the program run on its own output
    first                   \* result of run 1, kept for comparison in run 2

\* auto_run_MD.py
VARIABLES
    template_file,          \* gaff_loop_25.in on disk: [exists, lines]
    num_iterations,         \* the setting of line 11
    data_files,             \* the indices k for which <prefix>k.data exists
    temp_files,             \* the indices k for which temp_input_k.in exists
    original_lines,         \* the template as read
    iteration,              \* the loop variable i
    md_pc,                  \* "idle", "start", "loop", "exit" (sys.exit(1)), "finished"
    lammps_runs,            \* the os.system calls made, in order
    md_stdout               \* messages printed

md_vars == << template_file, num_iterations, data_files, temp_files, original_lines,
              iteration, md_pc, lammps_runs, md_stdout >>

\* auto_run_MD.py not started
MDIdle ==
    /\ template_file = Missing
    /\ num_iterations = 0
    /\ data_files = {}
    /\ temp_files = {}
    /\ original_lines = <<>>
    /\ iteration = 0
    /\ md_pc = "idle"
    /\ lammps_runs = <<>>
    /\ md_stdout = <<>>

\* auto_run_QMMM_CDFT.py
VARIABLES
    templates_found,        \* which of the three template files exist
    out_files_at_start,     \* the CP2K output files on disk when main() starts
    out_files,              \* the CP2K output files on disk: molecule -> step -> content
    wfn_files,              \* the pairs <<molecule, side>> whose -RESTART.wfn exists
    tpl_gacb,               \* the template used for GACB
    mol,                    \* the loop variable i
    qm_pc,                  \* "idle", "start", "GACA", "GACB", "AB_coupling", "returned"
    strength_gaca, strength_gacb,
    generated,              \* the input files generate_input wrote, in order
    cp2k_runs,              \* the run_cp2k calls made, in order
    qm_stdout               \* messages printed

qm_vars == << templates_found, out_files_at_start, out_files, wfn_files, tpl_gacb, mol,
              qm_pc, strength_gaca, strength_gacb, generated, cp2k_runs, qm_stdout >>

\* auto_run_QMMM_CDFT.py not started
QMIdle ==
    /\ templates_found = {}
    /\ out_files_at_start = <<>>
    /\ out_files = <<>>
    /\ wfn_files = {}
    /\ tpl_gacb = "None"
    /\ mol = 0
    /\ qm_pc = "idle"
    /\ strength_gaca = "None"
    /\ strength_gacb = "None"
    /\ generated = <<>>
    /\ cp2k_runs = <<>>
    /\ qm_stdout = <<>>

\* the two drivers not started
DriversIdle == MDIdle /\ QMIdle

driver_vars == << md_vars, qm_vars >>

pdb_vars == << mol2_template, input_pdb, manual, oligomer_info, header_lines, atom_lines,
               pc, num_olig, detected, num_oligomers, num_ions, num_waters,
               f_extract, f_extract_open, extracting, fout, fout_handle,
               atom_counter, residue_counter,
               current_mol_type, mol_idx, atom_in_mol_idx, current_residue_lines,
               line_num, stdout, run, first >>

vars == << pdb_vars, driver_vars >>

atoms_per_oligomer == Len(oligomer_info)

ion_resname == <<"C","l","-">>

ion_atomname == <<"C","l","-">>

water_resname == <<"W","A","T">>

water_atom_names == << <<"O">>, <<"H","1">>, <<"H","2">> >>

\* the water elements expected in the order H, O, H
water_elements_hoh == << <<"H">>, <<"O">>, <<"H">> >>

water_elements == << <<"O">>, <<"H">>, <<"H">> >>

NoResult == [counts |-> <<0, 0, 0>>, fout |-> <<>>]

\* the all-zero counts kept when detection finds nothing
fallback_counts_zero == <<0, 0, 0>>

\* lines 208-210: the manual counts of the configuration block
fallback_counts == manual

\* the configuration block as the repository ships it (lines 13-15)
ShippedConfig == <<MANUAL_NUM_OLIGOMERS, MANUAL_NUM_IONS, MANUAL_NUM_WATERS>>

\* the process at its start: nothing loaded, nothing opened
Fresh ==
    /\ pc = "start"
    /\ oligomer_info = <<>> /\ header_lines = <<>> /\ atom_lines = <<>>
    /\ num_olig = 0
    /\ detected = <<0, 0, 0>>
    /\ num_oligomers = 0 /\ num_ions = 0 /\ num_waters = 0
    /\ f_extract = <<>> /\ f_extract_open = FALSE /\ extracting = FALSE
    /\ fout = <<>> /\ fout_handle = "none"
    /\ atom_counter = 0 /\ residue_counter = 0
    /\ current_mol_type = "oligomer" /\ mol_idx = 0 /\ atom_in_mol_idx = 0
    /\ current_residue_lines = <<>>
    /\ line_num = 0
    /\ stdout = <<>>

\* the template and the input are files that exist or not; the configuration
\* block is as shipped
Init ==
    /\ mol2_template \in { File(mol2) : mol2 \in Mol2Files } \cup { Missing }
    /\ input_pdb \in { File(ls) : ls \in Streams } \cup { Missing }
    /\ manual = ShippedConfig
    /\ run = 1
    /\ first = NoResult
    /\ Fresh
    /\ DriversIdle

\* the except clause left out: a missing input read as an empty file
input_found_always == TRUE

\* lines 187-192: open(input_pdb) does not raise FileNotFoundError
input_found == input_pdb.exists

\* lines 27-28, 57-59: open(mol2_file) does not raise FileNotFoundError
template_found == mol2_template.exists

\* lines 58-59, 191-192: the error is printed and the process exits
StartError(m) ==
    /\ stdout' = Append(stdout, Msg(m, 0, <<>>, <<>>))
    /\ pc' = "exit"
    /\ UNCHANGED << header_lines, atom_lines >>

\* lines 181-201: load the template, read the input, split its lines
Start ==
    /\ pc = "start"
    /\ IF ~template_found
       THEN /\ StartError("template_not_found")
            /\ UNCHANGED oligomer_info
       ELSE /\ oligomer_info' = load_atom_names_from_mol2(mol2_template.lines)
            /\ IF ~input_found
               THEN StartError("input_not_found")
               ELSE /\ atom_lines' \in Rereads(input_pdb.lines)
                    /\ header_lines' = SelectSeq(input_pdb.lines, IsHeaderLine)
                    /\ pc' = "detect"
                    /\ stdout' = stdout
    /\ UNCHANGED << mol2_template, input_pdb, manual, num_olig, detected, num_oligomers,
                    num_ions, num_waters, f_extract, f_extract_open, extracting, fout,
                    fout_handle, atom_counter, residue_counter, current_mol_type,
                    mol_idx, atom_in_mol_idx, current_residue_lines, line_num, run,
                    first >>

\* the longest oligomer scan followed: one iteration more than there are records
ScanCap == MaxLen + 1

\* lines 104-117 for a template without atoms: the guard of line 94 does not
\* fire, the condition of the while-loop holds, the inner for-loop has no
\* iteration, so matches stays True, num_olig grows and current_index, to
\* which atoms_per_olig is added, stays where it is.  (With one atom or more
\* the scan ends, and scan_oligomers is the whole loop.)
OligomerScanIteration ==
    /\ pc = "detect"
    /\ atoms_per_oligomer = 0
    /\ ~(Len(atom_lines) < atoms_per_oligomer)
    /\ num_olig * atoms_per_oligomer + atoms_per_oligomer <= Len(atom_lines)
    /\ num_olig < ScanCap
    /\ num_olig' = num_olig + 1
    /\ UNCHANGED << mol2_template, input_pdb, manual, oligomer_info, header_lines,
                    atom_lines, pc, detected, num_oligomers, num_ions, num_waters,
                    f_extract, f_extract_open, extracting, fout, fout_handle,
                    atom_counter, residue_counter, current_mol_type, mol_idx,
                    atom_in_mol_idx, current_residue_lines, line_num, stdout, run,
                    first >>

\* lines 212-237: open both output files, write the headers, reset the cursor
Prepare ==
    /\ f_extract' = <<>>
    /\ f_extract_open' = TRUE
    /\ extracting' = TRUE
    /\ fout' = header_lines
    /\ fout_handle' = "open"
    /\ atom_counter' = 0
    /\ residue_counter' = 0
    /\ current_mol_type' = "oligomer"
    /\ mol_idx' = 0
    /\ atom_in_mol_idx' = 0
    /\ current_residue_lines' = <<>>
    /\ line_num' = 0
    /\ pc' = "loop"

\* lines 203-237, the detection having found something
AutoDetect ==
    /\ pc = "detect"
    /\ atoms_per_oligomer > 0
    /\ LET d == auto_detect_counts(atom_lines, atoms_per_oligomer) IN
        /\ ~(d[1] = 0 /\ d[2] = 0 /\ d[3] = 0)
        /\ num_olig' = d[1]
        /\ detected' = d
        /\ num_oligomers' = d[1]
        /\ num_ions' = d[2]
        /\ num_waters' = d[3]
    /\ Prepare
    /\ UNCHANGED << mol2_template, input_pdb, manual, oligomer_info, header_lines,
                    atom_lines, stdout, run, first >>

\* lines 203-237, the detection having returned (0, 0, 0)
Fallback ==
    /\ pc = "detect"
    /\ atoms_per_oligomer > 0
    /\ LET d == auto_detect_counts(atom_lines, atoms_per_oligomer) IN
        /\ d[1] = 0 /\ d[2] = 0 /\ d[3] = 0
        /\ num_olig' = d[1]
        /\ detected' = d
    /\ num_oligomers' = fallback_counts[1]
    /\ num_ions' = fallback_counts[2]
    /\ num_waters' = fallback_counts[3]
    /\ stdout' = Append(stdout, Msg("fallback_warning", 0, <<>>, <<>>))
    /\ Prepare
    /\ UNCHANGED << mol2_template, input_pdb, manual, oligomer_info, header_lines,
                    atom_lines, run, first >>

\* ------------------------------------------------------------------------
\* Main processing loop (one action per path through the loop body)
\* ------------------------------------------------------------------------
\* the for-loop yields another record and the cursor is not "done"
Iterating ==
    /\ pc = "loop"
    /\ line_num < Len(atom_lines)
    /\ current_mol_type # "done"

line == atom_lines[line_num + 1]

pdb_element == get_pdb_element(line)

target_name == oligomer_info[atom_in_mol_idx + 1].name

target_element == oligomer_info[atom_in_mol_idx + 1].element

\* the END marker written on the way out
Abort_marked(m) ==
    /\ line_num' = line_num + 1
    /\ stdout' = Append(stdout, m)
    /\ pc' = "exit"
    /\ fout' = Append(fout, Marker("END"))
    /\ fout_handle' = "closed"
    /\ UNCHANGED << mol2_template, input_pdb, manual, oligomer_info, header_lines,
                    atom_lines, num_olig, detected, num_oligomers, num_ions,
                    num_waters, f_extract, f_extract_open, extracting,
                    atom_counter, residue_counter, current_mol_type, mol_idx,
                    atom_in_mol_idx, current_residue_lines, run, first >>

\* sys.exit(1) inside the loop: SystemExit leaves the with-block of line 226,
\* which closes fout; nothing more is written, f_extract is left as it is
Abort(m) ==
    /\ line_num' = line_num + 1
    /\ stdout' = Append(stdout, m)
    /\ pc' = "exit"
    /\ fout_handle' = "closed"
    /\ UNCHANGED << mol2_template, input_pdb, manual, oligomer_info, header_lines,
                    atom_lines, num_olig, detected, num_oligomers, num_ions,
                    num_waters, f_extract, f_extract_open, extracting, fout,
                    atom_counter, residue_counter, current_mol_type, mol_idx,
                    atom_in_mol_idx, current_residue_lines, run, first >>

\* the ValueError swallowed: every record taken as parseable
coords_parse_lenient == TRUE

\* lines 246-249: float() accepts the three coordinate slices of the record
coords_parse == line.xyz # "bad"

\* lines 246-252
CoordError ==
    /\ Iterating
    /\ ~coords_parse
    /\ Abort(Msg("invalid_coordinates", line_num + 1, <<>>, <<>>))

\* the extraction record written with the template's atom name
ExtractLine_canonical(idx, elem, xyz) ==
    [rec |-> "ATOM", serial |-> idx + 1, name |-> center4(oligomer_info[idx + 1].name),
     resName |-> <<"M","O","L">>, resSeq |-> 1, xcol |-> 30, xyz |-> xyz,
     elemcol |-> <<>>]

\* lines 271-272:
\* f"ATOM  {idx + 1:5d} {pdb_element:^4s} MOL     1    {x:8.3f}{y:8.3f}{z:8.3f}  1.00  0.00\n"
\* "ATOM  " 0..5, serial 6..10, name 12..15, "MOL" 17..19, "1" 25, x 30..37
ExtractLine(idx, elem, xyz) ==
    [rec |-> "ATOM", serial |-> idx + 1, name |-> center4(elem),
     resName |-> <<"M","O","L">>, resSeq |-> 1, xcol |-> 30, xyz |-> xyz,
     elemcol |-> <<>>]

\* the flag left as it is when the first oligomer closes
extracting_after_close_kept == extracting

\* line 290: the flag once the first oligomer has closed
extracting_after_close == FALSE

\* every record taken as the last of its oligomer
olig_complete_always == TRUE

\* line 279: the record just taken completes the oligomer
olig_complete == atom_in_mol_idx + 1 = atoms_per_oligomer

\* a water closed after its second atom
water_complete_short == atom_in_mol_idx + 1 = 2

\* line 336: the record just taken completes the water
water_complete == atom_in_mol_idx + 1 = 3

\* the buffered records numbered with the residue before
pending_resnum_stale == residue_counter

\* lines 300, 351: residue number of a record of the residue still being built
pending_resnum == residue_counter + 1

\* the ion phase entered whatever num_ions is
after_oligomers_always_ion == "ion"

\* the phase entered when the last oligomer closes (line 296)
after_oligomers == IF num_ions > 0 THEN "ion" ELSE IF num_waters > 0 THEN "water" ELSE "done"

\* the cursor sent back to the oligomer phase when no water is expected
after_ions_restart == IF num_waters > 0 THEN "water" ELSE "oligomer"

\* the phase entered when the last ion closes (line 318)
after_ions == IF num_waters > 0 THEN "water" ELSE "done"

\* lines 269-300
OligomerStep ==
    /\ line_num' = line_num + 1
    /\ f_extract' = IF extracting
                    THEN Append(f_extract, ExtractLine(atom_in_mol_idx, pdb_element, line.xyz))
                    ELSE f_extract
    /\ atom_counter' = atom_counter + 1
    /\ IF olig_complete
       THEN /\ residue_counter' = residue_counter + 1
            /\ fout' = fout \o current_residue_lines
                            \o << AtomLine(atom_counter + 1, target_name, <<"M","O","L">>,
                                           residue_counter + 1, line.xyz),
                                  TER >>
            /\ current_residue_lines' = <<>>
            /\ extracting' = extracting_after_close
            /\ f_extract_open' = IF extracting THEN FALSE ELSE f_extract_open
            /\ atom_in_mol_idx' = 0
            /\ IF mol_idx + 1 = num_oligomers
               THEN /\ current_mol_type' = after_oligomers
                    /\ mol_idx' = 0
               ELSE /\ current_mol_type' = current_mol_type
                    /\ mol_idx' = mol_idx + 1
       ELSE /\ current_residue_lines' =
                    Append(current_residue_lines,
                           AtomLine(atom_counter + 1, target_name, <<"M","O","L">>,
                                    pending_resnum, line.xyz))
            /\ atom_in_mol_idx' = atom_in_mol_idx + 1
            /\ UNCHANGED << residue_counter, fout, extracting, f_extract_open,
                            current_mol_type, mol_idx >>
    /\ UNCHANGED << mol2_template, input_pdb, manual, oligomer_info, header_lines,
                    atom_lines, pc, num_olig, detected, num_oligomers, num_ions,
                    num_waters, fout_handle, stdout, run, first >>

\* a lenient check that lets the record through
OligomerMismatch_lenient == OligomerStep

\* lines 262-267
OligomerMismatch ==
    Abort(Msg("oligomer_mismatch", line_num + 1, target_element, pdb_element))

\* lines 306-308
IonMismatch ==
    Abort(Msg("ion_mismatch", line_num + 1, <<"C","l">>, pdb_element))

\* lines 310-320
IonStep ==
    /\ line_num' = line_num + 1
    /\ atom_counter' = atom_counter + 1
    /\ residue_counter' = residue_counter + 1
    /\ fout' = fout \o << AtomLine(atom_counter + 1, ion_atomname, ion_resname,
                                   residue_counter + 1, line.xyz),
                          TER >>
    /\ IF mol_idx + 1 = num_ions
       THEN /\ current_mol_type' = after_ions
            /\ mol_idx' = 0
            /\ atom_in_mol_idx' = 0
       ELSE /\ mol_idx' = mol_idx + 1
            /\ UNCHANGED << current_mol_type, atom_in_mol_idx >>
    /\ UNCHANGED << mol2_template, input_pdb, manual, oligomer_info, header_lines,
                    atom_lines, pc, num_olig, detected, num_oligomers, num_ions,
                    num_waters, f_extract, f_extract_open, extracting, fout_handle,
                    current_residue_lines, stdout, run, first >>

\* lines 327-331
WaterMismatch ==
    Abort(Msg("water_mismatch", line_num + 1, water_elements[atom_in_mol_idx + 1],
              pdb_element))

\* lines 333-351
WaterStep ==
    /\ line_num' = line_num + 1
    /\ atom_counter' = atom_counter + 1
    /\ IF water_complete
       THEN /\ residue_counter' = residue_counter + 1
            /\ fout' = fout \o current_residue_lines
                            \o << AtomLine(atom_counter + 1,
                                           water_atom_names[atom_in_mol_idx + 1],
                                           water_resname, residue_counter + 1, line.xyz),
                                  TER >>
            /\ current_residue_lines' = <<>>
            /\ mol_idx' = mol_idx + 1
            /\ atom_in_mol_idx' = 0
            /\ current_mol_type' = IF mol_idx + 1 = num_waters THEN "done"
                                   ELSE current_mol_type
       ELSE /\ current_residue_lines' =
                    Append(current_residue_lines,
                           AtomLine(atom_counter + 1,
                                    water_atom_names[atom_in_mol_idx + 1],
                                    water_resname, pending_resnum, line.xyz))
            /\ atom_in_mol_idx' = atom_in_mol_idx + 1
            /\ UNCHANGED << residue_counter, fout, mol_idx, current_mol_type >>
    /\ UNCHANGED << mol2_template, input_pdb, manual, oligomer_info, header_lines,
                    atom_lines, pc, num_olig, detected, num_oligomers, num_ions,
                    num_waters, f_extract, f_extract_open, extracting, fout_handle,
                    stdout, run, first >>

\* lines 257-300: a record met in the oligomer phase
OligomerRecord ==
    /\ Iterating
    /\ coords_parse
    /\ current_mol_type = "oligomer"
    /\ IF pdb_element # target_element THEN OligomerMismatch ELSE OligomerStep

\* lines 302-320: a record met in the ion phase
IonRecord ==
    /\ Iterating
    /\ coords_parse
    /\ current_mol_type = "ion"
    /\ IF pdb_element # <<"C","l">> THEN IonMismatch ELSE IonStep

\* lines 322-351: a record met in the water phase
WaterRecord ==
    /\ Iterating
    /\ coords_parse
    /\ current_mol_type = "water"
    /\ IF pdb_element # water_elements[atom_in_mol_idx + 1] THEN WaterMismatch
       ELSE WaterStep

\* lines 353-359: after the loop; the with-block of line 226 ends and closes fout
Finish ==
    /\ stdout' = IF current_residue_lines # <<>>
                 THEN Append(stdout, Msg("incomplete_residue_warning", 0, <<>>, <<>>))
                 ELSE stdout
    /\ fout' = Append(fout, END)
    /\ fout_handle' = "closed"
    /\ pc' = "finished"
    /\ UNCHANGED << mol2_template, input_pdb, manual, oligomer_info, header_lines,
                    atom_lines, num_olig, detected, num_oligomers, num_ions,
                    num_waters, f_extract, f_extract_open, extracting, atom_counter,
                    residue_counter, current_mol_type, mol_idx, atom_in_mol_idx,
                    current_residue_lines, run, first >>

\* lines 240-244: the loop takes the next record, sees "done" and breaks
LoopBreak ==
    /\ pc = "loop"
    /\ line_num < Len(atom_lines)
    /\ current_mol_type = "done"
    /\ line_num' = line_num + 1
    /\ Finish

\* line 240: no record is left
LoopExhausted ==
    /\ pc = "loop"
    /\ line_num = Len(atom_lines)
    /\ line_num' = line_num
    /\ Finish

\* The program is started again with the main output it has just produced
\* as its input file, with the same template and configuration.
Rerun ==
    /\ pc = "finished"
    /\ run = 1
    /\ run' = 2
    /\ first' = [counts |-> <<num_oligomers, num_ions, num_waters>>, fout |-> fout]
    /\ input_pdb' = File(fout)
    /\ UNCHANGED << mol2_template, manual >>
    /\ pc' = "start"
    /\ oligomer_info' = <<>> /\ header_lines' = <<>> /\ atom_lines' = <<>>
    /\ num_olig' = 0
    /\ detected' = <<0, 0, 0>>
    /\ num_oligomers' = 0 /\ num_ions' = 0 /\ num_waters' = 0
    /\ f_extract' = <<>> /\ f_extract_open' = FALSE /\ extracting' = FALSE
    /\ fout' = <<>> /\ fout_handle' = "none"
    /\ atom_counter' = 0 /\ residue_counter' = 0
    /\ current_mol_type' = "oligomer" /\ mol_idx' = 0 /\ atom_in_mol_idx' = 0
    /\ current_residue_lines' = <<>>
    /\ line_num' = 0
    /\ stdout' = <<>>

Next ==
    \/ Start /\ UNCHANGED driver_vars
    \/ OligomerScanIteration /\ UNCHANGED driver_vars
    \/ AutoDetect /\ UNCHANGED driver_vars
    \/ Fallback /\ UNCHANGED driver_vars
    \/ CoordError /\ UNCHANGED driver_vars
    \/ OligomerRecord /\ UNCHANGED driver_vars
    \/ IonRecord /\ UNCHANGED driver_vars
    \/ WaterRecord /\ UNCHANGED driver_vars
    \/ LoopBreak /\ UNCHANGED driver_vars
    \/ LoopExhausted /\ UNCHANGED driver_vars
    \/ Rerun /\ UNCHANGED driver_vars

Spec == Init /\ [][Next]_vars

\* ------------------------------------------------------------------------
\* Detection on synthetic streams: u oligomers, then i ions, then w waters
\* ------------------------------------------------------------------------
\* the element written right-justified in columns 76..77
elem_column(e) == IF Len(e) = 1 THEN <<" ">> \o upper(e) ELSE upper(e)

\* a standard line for one atom of the template
SymLine(atom) ==
    InLine(center4(atom.name), <<"M","O","L">>, "num",
           elem_column(mol2_element(atom.type)))

\* template atoms of the small synthetic templates; one is a chlorine, whose
\* name is an ion name as well
SymMol2Atoms == Mol2Atoms \cup { [name |-> <<"C","L">>, type |-> <<"c","l">>] }

\* the five-atom template with the elements C, C, O, N, H
FiveAtomMol2 ==
    << [name |-> <<"C","1">>, type |-> <<"c","3">>],
       [name |-> <<"C","2">>, type |-> <<"c","3">>],
       [name |-> <<"O","1">>, type |-> <<"o","h">>],
       [name |-> <<"N","1">>, type |-> <<"n","3">>],
       [name |-> <<"H","1">>, type |-> <<"h","c">>] >>

SymMol2Files == UNION { [1..n -> SymMol2Atoms] : n \in 1..MaxN } \cup { FiveAtomMol2 }

SymIonLines ==
    { InLine(<<"C","L"," "," ">>, <<"C","L"," ">>, "full", <<>>),
      InLine(<<"C","l","-"," ">>, <<"C","l","-">>, "num", <<>>) }

SymWater ==
    << InLine(<<" ","O"," "," ">>, <<"W","A","T">>, "num", <<>>),
       InLine(<<" ","H","1"," ">>, <<"W","A","T">>, "num", <<>>),
       InLine(<<" ","H","2"," ">>, <<"W","A","T">>, "num", <<>>) >>

\* u copies of the unit, the ions, w waters
SymStream(unit, u, ions, w) ==
    [k \in 1..(u * Len(unit)) |-> unit[((k - 1) % Len(unit)) + 1]]
        \o ions \o [k \in 1..(3 * w) |-> SymWater[((k - 1) % 3) + 1]]

InitSym ==
    /\ \E mol2 \in SymMol2Files, u \in 0..MaxUnits, i \in 0..MaxIons, w \in 0..MaxWaters :
        \E ions \in [1..i -> SymIonLines] :
            /\ mol2_template = File(mol2)
            /\ input_pdb = File(SymStream([k \in 1..Len(mol2) |-> SymLine(mol2[k])],
                                          u, ions, w))
    /\ manual = ShippedConfig
    /\ run = 1
    /\ first = NoResult
    /\ Fresh
    /\ DriversIdle

NextSym ==
    \/ Start /\ UNCHANGED driver_vars
    \/ AutoDetect /\ UNCHANGED driver_vars
    \/ Fallback /\ UNCHANGED driver_vars

SpecSym == InitSym /\ [][NextSym]_vars

\* ------------------------------------------------------------------------
\* The program as it is used: input files with lines before the atom records,
\* and a configuration block the user has edited
\* ------------------------------------------------------------------------
\* what precedes the atom records of an input file: nothing, or a header line
\* (copied to the output) and a line the program skips
Preambles == { <<>>, << Marker("REMARK"), Marker("CONECT") >> }

\* the configuration block as shipped, or set to no oligomer, one ion, one water
ManualConfigs == { ShippedConfig, <<0, 1, 1>> }

InitDeployed ==
    /\ mol2_template \in { File(mol2) : mol2 \in Mol2Files } \cup { Missing }
    /\ input_pdb \in { File(pre \o ls) : pre \in Preambles, ls \in Streams } \cup { Missing }
    /\ manual \in ManualConfigs
    /\ run = 1
    /\ first = NoResult
    /\ Fresh
    /\ DriversIdle

SpecDeployed == InitDeployed /\ [][Next]_vars

\* ------------------------------------------------------------------------
\* Structured input: oligomers, ions and waters, one record of them damaged
\* ------------------------------------------------------------------------
\* what is wrong with the damaged record: its coordinates do not parse, its
\* element column names another element, or both
Damage == {"coords", "element", "both"}

damaged(l, d) ==
    [l EXCEPT !.xyz = IF d \in {"coords", "both"} THEN "bad" ELSE @,
              !.elemcol = IF d \in {"element", "both"} THEN <<" ","N">> ELSE @]

\* templates without atoms, of one atom and of two
PhaseMol2Files ==
    { <<>>,
      << [name |-> <<"C","A">>, type |-> <<"c","3">>] >>,
      << [name |-> <<"C","A">>, type |-> <<"c","3">>],
         [name |-> <<"H","1">>, type |-> <<"h","c">>] >> }

InitPhases ==
    /\ \E mol2 \in PhaseMol2Files, u \in 0..MaxUnits, i \in 0..MaxIons, w \in 0..MaxWaters :
        \E ions \in [1..i -> SymIonLines] :
            LET stream == SymStream([k \in 1..Len(mol2) |-> SymLine(mol2[k])], u, ions, w)
            IN  /\ mol2_template = File(mol2)
                /\ \/ input_pdb = File(stream)
                   \/ \E p \in 1..Len(stream), d \in Damage :
                        input_pdb = File([stream EXCEPT ![p] = damaged(@, d)])
    /\ manual = ShippedConfig
    /\ run = 1
    /\ first = NoResult
    /\ Fresh
    /\ DriversIdle

SpecPhases == InitPhases /\ [][Next]_vars

\* ------------------------------------------------------------------------
\* auto_run_MD.py: the LAMMPS loop
\* ------------------------------------------------------------------------
\* pdb_mol2_process.py not started
PdbIdle ==
    /\ mol2_template = Missing
    /\ input_pdb = Missing
    /\ manual = ShippedConfig
    /\ run = 1
    /\ first = NoResult
    /\ Fresh

read_data_tag == "read_data"
log_tag == "log"
write_data_tag == "write_data"

\* file names: <prefix>k.data, thermodata_k.log, trajectory_strj_k.lammpstrj
DataFile(k) == [kind |-> "data", idx |-> k]
LogFile(k) == [kind |-> "log", idx |-> k]
TrajFile(k) == [kind |-> "lammpstrj", idx |-> k]
NoFile == [kind |-> "none", idx |-> 0]

\* a line of a LAMMPS input: the word its stripped text starts with, whether
\* it contains dump_tag, and the file it names
InputLine(head, tagged, arg) == [head |-> head, tagged |-> tagged, arg |-> arg]

\* templates: one with every line the loop rewrites and two it leaves alone,
\* one without write_data, an empty one
MDTemplates ==
    { << InputLine("read_data", FALSE, DataFile(0)),
         InputLine("log", FALSE, LogFile(0)),
         InputLine("dump", TRUE, TrajFile(0)),
         InputLine("dump", FALSE, TrajFile(0)),
         InputLine("write_data", FALSE, DataFile(0)),
         InputLine("run", FALSE, NoFile) >>,
      << InputLine("read_data", FALSE, DataFile(0)),
         InputLine("run", FALSE, NoFile) >>,
      <<>> }

\* lines 41-45
read_data_file(i) == DataFile(i)
write_data_file(i) == DataFile(i + 1)
lammpstrj_file(i) == TrajFile(i + 1)
log_file(i) == LogFile(i + 1)
temp_input_file(i) == i + 1

\* lines 60-74: one line of the temporary input
new_line(l, i) ==
    IF l.head = read_data_tag THEN InputLine("read_data", FALSE, read_data_file(i))
    ELSE IF l.head = log_tag THEN InputLine("log", FALSE, log_file(i))
    ELSE IF l.head = "dump" /\ l.tagged THEN InputLine("dump", TRUE, lammpstrj_file(i))
    ELSE IF l.head = write_data_tag THEN InputLine("write_data", FALSE, write_data_file(i))
    ELSE l

\* lines 59-74
new_lines(i) == [k \in 1..Len(original_lines) |-> new_line(original_lines[k], i)]

\* the existence check left out
input_exists_always(i) == TRUE

\* line 51: os.path.exists(read_data_file)
input_exists(i) == i \in data_files

\* the data files a LAMMPS input asks LAMMPS to write
written_by(lines) ==
    { lines[k].arg.idx : k \in { j \in 1..Len(lines) : lines[j].head = "write_data" } }

\* what os.system returns: zero or not
ExitCodes == {0, 1}

MDMsg(m, i) == [msg |-> m, iteration |-> i]

InitMD ==
    /\ PdbIdle
    /\ QMIdle
    /\ template_file \in { File(t) : t \in MDTemplates } \cup { Missing }
    /\ num_iterations \in 0..MaxIterations
    /\ data_files \in SUBSET (0..MaxIterations)
    /\ temp_files = {}
    /\ original_lines = <<>>
    /\ iteration = 0
    /\ md_pc = "start"
    /\ lammps_runs = <<>>
    /\ md_stdout = <<>>

\* lines 22-35: the template is read, or the script exits
MDStart ==
    /\ md_pc = "start"
    /\ IF template_file.exists
       THEN /\ original_lines' = template_file.lines
            /\ md_pc' = "loop"
            /\ UNCHANGED md_stdout
       ELSE /\ md_pc' = "exit"
            /\ md_stdout' = Append(md_stdout, MDMsg("template_not_found", 0))
            /\ UNCHANGED original_lines
    /\ UNCHANGED << template_file, num_iterations, data_files, temp_files, iteration,
                    lammps_runs >>

\* line 38: the loop has an iteration to run
MDIterating == md_pc = "loop" /\ iteration < num_iterations

\* lines 51-54, 106-107: the input of this iteration is missing
MDMissingInput ==
    /\ MDIterating
    /\ ~input_exists(iteration)
    /\ md_stdout' = Append(md_stdout, MDMsg("missing_input", iteration))
    /\ md_pc' = "finished"
    /\ UNCHANGED << template_file, num_iterations, data_files, temp_files,
                    original_lines, iteration, lammps_runs >>

\* lines 51-82, 106-107: the temporary input cannot be written; open() may
\* have created the file before the error
MDWriteFailure ==
    /\ MDIterating
    /\ input_exists(iteration)
    /\ temp_files' \in { temp_files, temp_files \cup { temp_input_file(iteration) } }
    /\ md_stdout' = Append(md_stdout, MDMsg("write_error", iteration))
    /\ md_pc' = "finished"
    /\ UNCHANGED << template_file, num_iterations, data_files, original_lines,
                    iteration, lammps_runs >>

\* lines 51-104: the temporary input is written and LAMMPS runs on it; LAMMPS
\* writes the data file its input names, or not; on exit code 0 the temporary
\* input is removed, or the removal fails with a warning
MDRunLammps ==
    /\ MDIterating
    /\ input_exists(iteration)
    /\ \E exit_code \in ExitCodes, written \in SUBSET written_by(new_lines(iteration)),
          removed \in BOOLEAN :
        /\ lammps_runs' = Append(lammps_runs,
                                 [iteration |-> iteration,
                                  input |-> new_lines(iteration),
                                  disk |-> data_files,
                                  exit_code |-> exit_code])
        /\ data_files' = data_files \cup written
        /\ IF exit_code # 0
           THEN /\ md_stdout' = Append(md_stdout, MDMsg("lammps_error", iteration))
                /\ md_pc' = "finished"
                /\ temp_files' = temp_files \cup { temp_input_file(iteration) }
                /\ UNCHANGED iteration
           ELSE /\ md_stdout' = Append(md_stdout, MDMsg("success", iteration))
                /\ temp_files' = IF removed
                                 THEN temp_files \ { temp_input_file(iteration) }
                                 ELSE temp_files \cup { temp_input_file(iteration) }
                /\ iteration' = iteration + 1
                /\ UNCHANGED md_pc
    /\ UNCHANGED << template_file, num_iterations, original_lines >>

\* lines 38, 106-107: range(num_iterations) is exhausted
MDLoopEnd ==
    /\ md_pc = "loop"
    /\ iteration >= num_iterations
    /\ md_pc' = "finished"
    /\ UNCHANGED << template_file, num_iterations, data_files, temp_files,
                    original_lines, iteration, lammps_runs, md_stdout >>

NextMD ==
    \/ MDStart /\ UNCHANGED << pdb_vars, qm_vars >>
    \/ MDMissingInput /\ UNCHANGED << pdb_vars, qm_vars >>
    \/ MDWriteFailure /\ UNCHANGED << pdb_vars, qm_vars >>
    \/ MDRunLammps /\ UNCHANGED << pdb_vars, qm_vars >>
    \/ MDLoopEnd /\ UNCHANGED << pdb_vars, qm_vars >>

SpecMD == InitMD /\ [][NextMD]_vars

\* ------------------------------------------------------------------------
\* auto_run_QMMM_CDFT.py: GACA, GACB and coupling for each molecule
\* ------------------------------------------------------------------------
START_MOL == 49
BASE_MOL_IDX == 49
ATOMS_PER_MOL == 173

\* the range of line 15 cut to MaxMols molecules
END_MOL == START_MOL + MaxMols - 1

Mols == START_MOL..END_MOL
Sides == {"GACA", "GACB"}
Steps == {"GACA", "GACB", "AB_coupling"}

\* what extract_strength returns when no line matches
None == "None"

\* a CP2K output file: whether it exists, whether it holds "PROGRAM ENDED AT",
\* and the last "Strength of constraint" value in it
Out(footer, strength) == [exists |-> TRUE, footer |-> footer, strength |-> strength]
Absent == [exists |-> FALSE, footer |-> FALSE, strength |-> None]

\* the files of one molecule a run can start from
MolDisks ==
    { \* nothing computed
      [outs |-> [s \in Steps |-> Absent], wfn |-> {}],
      \* everything finished
      [outs |-> [s \in Steps |-> Out(TRUE, IF s \in Sides THEN "-0.087" ELSE None)],
       wfn |-> Sides],
      \* both sides finished, coupling not started
      [outs |-> [s \in Steps |-> IF s \in Sides THEN Out(TRUE, "-0.087") ELSE Absent],
       wfn |-> Sides],
      \* both sides finished, one wavefunction file gone
      [outs |-> [s \in Steps |-> IF s \in Sides THEN Out(TRUE, "-0.087") ELSE Absent],
       wfn |-> {"GACA"}],
      \* GACA finished without a strength line
      [outs |-> [s \in Steps |-> IF s = "GACA" THEN Out(TRUE, None)
                                 ELSE IF s = "GACB" THEN Out(TRUE, "-0.087")
                                 ELSE Absent],
       wfn |-> Sides],
      \* GACA interrupted after a strength line, coupling interrupted
      [outs |-> [s \in Steps |-> IF s = "GACA" THEN Out(FALSE, "-0.087")
                                 ELSE IF s = "GACB" THEN Absent
                                 ELSE Out(FALSE, None)],
       wfn |-> {"GACA"}],
      \* a finished coupling output with nothing else
      [outs |-> [s \in Steps |-> IF s = "AB_coupling" THEN Out(TRUE, None) ELSE Absent],
       wfn |-> {}] }

\* the template files present: all, or one of them missing
TemplateSets ==
    { {"GACA", "GACB", "AB_coupling"}, {"GACA", "AB_coupling"},
      {"GACB", "AB_coupling"}, {"GACA", "GACB"} }

\* line 220
offset(i) == (i - BASE_MOL_IDX) * ATOMS_PER_MOL

\* lines 70-90: the last strength in the file, None without the file or a match
extract_strength(out) == IF out.exists THEN out.strength ELSE None

\* the footer not looked for
is_calc_finished_exists(out) == out.exists

\* lines 92-102
is_calc_finished(out) == out.exists /\ out.footer

\* the wavefunction files not looked for
wfn_exists_always(i, side) == TRUE

\* line 268: os.path.exists(wfn_gaca), os.path.exists(wfn_gacb)
wfn_exists(i, side) == <<i, side>> \in wfn_files

\* lines 121-173: the input file written
generate_input(template, i, step, wfn_replace_map, strength_map) ==
    [new_file |-> <<i, step>>,
     template |-> template,
     proj_name |-> <<i, step>>,
     atom_offset |-> offset(i),
     wfn_replace_map |-> wfn_replace_map,
     strength_map |-> strength_map]

NoMap == <<>>

QMMsg(m, i) == [msg |-> m, mol |-> i]

InitQM ==
    /\ PdbIdle
    /\ MDIdle
    /\ templates_found \in TemplateSets
    /\ \E d \in [Mols -> MolDisks] :
        /\ out_files_at_start = [i \in Mols |-> d[i].outs]
        /\ out_files = [i \in Mols |-> d[i].outs]
        /\ wfn_files = { p \in Mols \X Sides : p[2] \in d[p[1]].wfn }
    /\ tpl_gacb = None
    /\ mol = START_MOL
    /\ qm_pc = "start"
    /\ strength_gaca = None
    /\ strength_gacb = None
    /\ generated = <<>>
    /\ cp2k_runs = <<>>
    /\ qm_stdout = <<>>

\* lines 187-215: the templates are looked up; main() returns without the
\* GACA or the coupling template, and uses the GACA template for GACB when the
\* GACB template is missing
QMStart ==
    /\ qm_pc = "start"
    /\ IF "GACA" \notin templates_found
       THEN /\ qm_stdout' = Append(qm_stdout, QMMsg("template_gaca_not_found", 0))
            /\ qm_pc' = "returned"
            /\ UNCHANGED tpl_gacb
       ELSE IF "AB_coupling" \notin templates_found
       THEN /\ qm_stdout' = Append(qm_stdout, QMMsg("template_coupling_not_found", 0))
            /\ qm_pc' = "returned"
            /\ UNCHANGED tpl_gacb
       ELSE /\ tpl_gacb' = IF "GACB" \in templates_found THEN "GACB" ELSE "GACA"
            /\ qm_stdout' = IF "GACB" \in templates_found THEN qm_stdout
                            ELSE Append(qm_stdout, QMMsg("template_gacb_not_found", 0))
            /\ qm_pc' = IF START_MOL <= END_MOL THEN "GACA" ELSE "returned"
    /\ UNCHANGED << templates_found, out_files_at_start, out_files, wfn_files, mol,
                    strength_gaca, strength_gacb, generated, cp2k_runs >>

\* lines 175-184: CP2K runs and tee writes the output file; the output ends
\* with the footer or not, holds a strength or not, and the wavefunction file
\* of the project is written or not
run_cp2k(i, step, footer, strength, wfn) ==
    /\ cp2k_runs' = Append(cp2k_runs, <<i, step>>)
    /\ out_files' = [out_files EXCEPT ![i][step] = Out(footer, strength)]
    /\ wfn_files' = IF wfn /\ step \in Sides THEN wfn_files \cup {<<i, step>>}
                    ELSE wfn_files

\* how a CP2K run on one side can end: finished with strength and
\* wavefunction, stopped before writing anything of them, finished without a
\* strength line, finished without the wavefunction file, stopped after both
Cp2kOutcomes ==
    { [footer |-> TRUE, strength |-> "-0.087", wfn |-> TRUE],
      [footer |-> FALSE, strength |-> None, wfn |-> FALSE],
      [footer |-> TRUE, strength |-> None, wfn |-> TRUE],
      [footer |-> TRUE, strength |-> "-0.087", wfn |-> FALSE],
      [footer |-> FALSE, strength |-> "-0.087", wfn |-> TRUE] }

\* lines 239-240, 251-252: the output of the side is finished
SideSkip(side) ==
    /\ qm_pc = side
    /\ is_calc_finished(out_files[mol][side])
    /\ qm_stdout' = Append(qm_stdout, QMMsg("skip", mol))
    /\ UNCHANGED << out_files, wfn_files, generated, cp2k_runs >>

\* lines 241-246, 253-258: the input is generated and CP2K run
SideRun(side, template) ==
    /\ qm_pc = side
    /\ ~is_calc_finished(out_files[mol][side])
    /\ generated' = Append(generated, generate_input(template, mol, side, NoMap, NoMap))
    /\ \E o \in Cp2kOutcomes : run_cp2k(mol, side, o.footer, o.strength, o.wfn)
    /\ UNCHANGED qm_stdout

\* lines 237-247
GACASkip ==
    /\ SideSkip("GACA")
    /\ strength_gaca' = extract_strength(out_files'[mol]["GACA"])
    /\ qm_pc' = "GACB"
    /\ UNCHANGED << templates_found, out_files_at_start, tpl_gacb, mol, strength_gacb >>

GACARun ==
    /\ SideRun("GACA", "GACA")
    /\ strength_gaca' = extract_strength(out_files'[mol]["GACA"])
    /\ qm_pc' = "GACB"
    /\ UNCHANGED << templates_found, out_files_at_start, tpl_gacb, mol, strength_gacb >>

\* lines 249-259
GACBSkip ==
    /\ SideSkip("GACB")
    /\ strength_gacb' = extract_strength(out_files'[mol]["GACB"])
    /\ qm_pc' = "AB_coupling"
    /\ UNCHANGED << templates_found, out_files_at_start, tpl_gacb, mol, strength_gaca >>

GACBRun ==
    /\ SideRun("GACB", tpl_gacb)
    /\ strength_gacb' = extract_strength(out_files'[mol]["GACB"])
    /\ qm_pc' = "AB_coupling"
    /\ UNCHANGED << templates_found, out_files_at_start, tpl_gacb, mol, strength_gaca >>

\* line 215: the next molecule, or the end of the range
NextMol ==
    /\ mol' = mol + 1
    /\ qm_pc' = IF mol + 1 <= END_MOL THEN "GACA" ELSE "returned"
    /\ UNCHANGED << templates_found, out_files_at_start, tpl_gacb, strength_gaca,
                    strength_gacb >>

\* lines 263-265
CouplingMissingStrength ==
    /\ qm_pc = "AB_coupling"
    /\ strength_gaca = None \/ strength_gacb = None
    /\ qm_stdout' = Append(qm_stdout, QMMsg("missing_strength", mol))
    /\ NextMol
    /\ UNCHANGED << out_files, wfn_files, generated, cp2k_runs >>

\* lines 263-270
CouplingMissingWfn ==
    /\ qm_pc = "AB_coupling"
    /\ strength_gaca # None /\ strength_gacb # None
    /\ ~wfn_exists(mol, "GACA") \/ ~wfn_exists(mol, "GACB")
    /\ qm_stdout' = Append(qm_stdout, QMMsg("wfn_missing", mol))
    /\ NextMol
    /\ UNCHANGED << out_files, wfn_files, generated, cp2k_runs >>

\* lines 263-281: the gate passed
CouplingGatePassed ==
    /\ qm_pc = "AB_coupling"
    /\ strength_gaca # None /\ strength_gacb # None
    /\ wfn_exists(mol, "GACA") /\ wfn_exists(mol, "GACB")

\* lines 272-273, 281
CouplingSkip ==
    /\ CouplingGatePassed
    /\ is_calc_finished(out_files[mol]["AB_coupling"])
    /\ qm_stdout' = Append(Append(qm_stdout, QMMsg("skip", mol)), QMMsg("done", mol))
    /\ NextMol
    /\ UNCHANGED << out_files, wfn_files, generated, cp2k_runs >>

\* lines 274-281
CouplingRun ==
    /\ CouplingGatePassed
    /\ ~is_calc_finished(out_files[mol]["AB_coupling"])
    /\ generated' = Append(generated,
                           generate_input("AB_coupling", mol, "AB_coupling",
                                          [side \in Sides |-> <<mol, side>>],
                                          [GACA |-> strength_gaca, GACB |-> strength_gacb]))
    /\ \E footer \in BOOLEAN : run_cp2k(mol, "AB_coupling", footer, None, FALSE)
    /\ qm_stdout' = Append(qm_stdout, QMMsg("done", mol))
    /\ NextMol

NextQM ==
    \/ QMStart /\ UNCHANGED << pdb_vars, md_vars >>
    \/ GACASkip /\ UNCHANGED << pdb_vars, md_vars >>
    \/ GACARun /\ UNCHANGED << pdb_vars, md_vars >>
    \/ GACBSkip /\ UNCHANGED << pdb_vars, md_vars >>
    \/ GACBRun /\ UNCHANGED << pdb_vars, md_vars >>
    \/ CouplingMissingStrength /\ UNCHANGED << pdb_vars, md_vars >>
    \/ CouplingMissingWfn /\ UNCHANGED << pdb_vars, md_vars >>
    \/ CouplingSkip /\ UNCHANGED << pdb_vars, md_vars >>
    \/ CouplingRun /\ UNCHANGED << pdb_vars, md_vars >>

SpecQM == InitQM /\ [][NextQM]_vars

TypeOK ==
    /\ pc \in {"start", "detect", "loop", "exit", "finished"}
    /\ fout_handle \in {"none", "open", "closed"}
    /\ current_mol_type \in {"oligomer", "ion", "water", "done"}
    /\ run \in {1, 2}

\* ------------------------------------------------------------------------
\* Auxiliary definitions of the properties
\* ------------------------------------------------------------------------
Min(a, b) == IF a <= b THEN a ELSE b

\* lines 212-226 have been passed: the counts are set and the outputs opened
Prepared == fout_handle # "none"

LastMsg == stdout[Len(stdout)]

NumAtomLines(f) == Len(SelectSeq(f, IsAtomLine))

\* how many of the first p lines of file f carry the record keyword kw
CountKind(f, p, kw) == Cardinality({q \in 1..p : f[q].rec = kw})

\* the records the counts assign to the oligomer phase
unit_region == Min(Len(atom_lines), num_oligomers * atoms_per_oligomer)

\* the template element a record at position k of the oligomer region must have
expected_element(k) == oligomer_info[((k - 1) % atoms_per_oligomer) + 1].element

Conforms(k) ==
    /\ atom_lines[k].xyz # "bad"
    /\ get_pdb_element(atom_lines[k]) = expected_element(k)

Corrupt(k) ==
    /\ atom_lines[k].xyz # "bad"
    /\ get_pdb_element(atom_lines[k]) # expected_element(k)

total_counted == num_oligomers * atoms_per_oligomer + num_ions + 3 * num_waters

\* the 1-based number, in the input file, of its k-th ATOM/HETATM line
file_line_of(k) ==
    CHOOSE p \in 1..Len(input_pdb.lines) :
        /\ IsAtomLine(input_pdb.lines[p])
        /\ Cardinality({q \in 1..p : IsAtomLine(input_pdb.lines[q])}) = k

MismatchMsgs == {"oligomer_mismatch", "ion_mismatch", "water_mismatch"}

\* the element the phase of the cursor expects of the next record
phase_expected ==
    CASE current_mol_type = "oligomer" -> oligomer_info[atom_in_mol_idx + 1].element
      [] current_mol_type = "ion" -> <<"C","l">>
      [] current_mol_type = "water" -> water_elements[atom_in_mol_idx + 1]

Rank(t) == CASE t = "oligomer" -> 0 [] t = "ion" -> 1 [] t = "water" -> 2 [] t = "done" -> 3

\* ------------------------------------------------------------------------
\* Properties
\* ------------------------------------------------------------------------

\* C1 (fail-fast on corruption): if record k of the oligomer region is
\* parseable and its classified element differs from the template element of
\* its position, all earlier records matching and parseable, then the run
\* never finishes normally and never gets past record k; when the loop is at
\* record k the process has exited with an oligomer-mismatch report whose
\* line number is k, and the main output holds no ATOM line numbered k or more.
C1_FailFast ==
    Prepared =>
        \A k \in 1..unit_region :
            (Corrupt(k) /\ \A j \in 1..(k - 1) : Conforms(j)) =>
                /\ line_num <= k
                /\ pc # "finished"
                /\ line_num = k =>
                    /\ pc = "exit"
                    /\ stdout # <<>>
                    /\ LastMsg.msg = "oligomer_mismatch"
                    /\ LastMsg.line = k
                    /\ LastMsg.expected = expected_element(k)
                    /\ LastMsg.found = get_pdb_element(atom_lines[k])
                /\ \A p \in 1..Len(fout) : IsAtomLine(fout[p]) => fout[p].serial < k

\* a mismatch met in the second or a later oligomer, after a first one was written
C1_Witness ==
    /\ pc = "exit"
    /\ stdout # <<>>
    /\ LastMsg.msg = "oligomer_mismatch"
    /\ LastMsg.line > atoms_per_oligomer
    /\ NumAtomLines(fout) >= atoms_per_oligomer

\* C2 (exact consumption): whenever the cursor is "done", the number of
\* records processed is exactly u*n + i + 3*w, as many ATOM lines are in the
\* main output, and the loop has taken at most the one record it breaks on.
C2_ExactConsumption ==
    current_mol_type = "done" =>
        /\ pc \in {"loop", "finished"}
        /\ atom_counter = total_counted
        /\ NumAtomLines(fout) = total_counted
        /\ line_num \in {total_counted, total_counted + 1}

\* "done" reached through the water phase
C2_Witness ==
    /\ current_mol_type = "done"
    /\ pc = "finished"
    /\ num_oligomers > 0
    /\ num_waters > 0

C4_MonotonicNumbering ==
    \A p \in 1..Len(fout) :
        IsAtomLine(fout[p]) =>
            /\ fout[p].serial = CountKind(fout, p, "ATOM")
            /\ fout[p].resSeq = CountKind(fout, p, "TER") + 1

\* an output holding a two-atom oligomer followed by another residue
C4_Witness ==
    /\ atoms_per_oligomer = 2
    /\ CountKind(fout, Len(fout), "TER") >= 2
    /\ NumAtomLines(fout) >= 3

\* C5 (no backtracking): within one run the cursor's phase never moves to an
\* earlier phase of oligomer -> ion -> water -> done.
C5_NoBacktracking ==
    [][run' = run => Rank(current_mol_type') >= Rank(current_mol_type)]_vars

\* a run that went through the ion phase to "done"
C5_Witness ==
    /\ current_mol_type = "done"
    /\ num_ions > 0
    /\ CountKind(fout, Len(fout), "TER") >= 2

\* a stream none of whose records carries an ion or water name, an O or H
\* element, or a name or an element of the template
NoPatternMatches ==
    \A k \in 1..Len(atom_lines) :
        /\ ~is_ion(atom_lines[k])
        /\ ~is_water(atom_lines[k])
        /\ get_pdb_element(atom_lines[k]) \notin {<<"O">>, <<"H">>}
        /\ \A j \in 1..atoms_per_oligomer :
            /\ strip(atom_lines[k].name) # oligomer_info[j].name
            /\ get_pdb_element(atom_lines[k]) # oligomer_info[j].element

counts == <<num_oligomers, num_ions, num_waters>>

\* the residue groupings of a main output: its lines without the coordinates
Groupings(f) ==
    [k \in 1..Len(f) |->
        [rec |-> f[k].rec, serial |-> f[k].serial, name |-> f[k].name,
         resName |-> f[k].resName, resSeq |-> f[k].resSeq]]

\* C7 as stated (fallback trigger): a stream with no atom record, or whose
\* records match none of the unit, ion and water patterns, is detected as
\* (0,0,0) and reconstructed with the manual counts.
C7_Original ==
    (Prepared /\ (Len(atom_lines) = 0 \/ NoPatternMatches)) =>
        /\ detected = <<0, 0, 0>>
        /\ counts = fallback_counts

\* C7 as amended: detection returns (0,0,0), and the manual counts are
\* substituted with a warning, exactly for the streams with fewer records than
\* atoms_per_oligomer (the empty stream among them); a stream with at least
\* atoms_per_oligomer records yields at least one oligomer, whatever its
\* records are, and is reconstructed with the detected counts.
C7_FallbackTrigger ==
    Prepared =>
        /\ Len(atom_lines) < atoms_per_oligomer =>
            /\ detected = <<0, 0, 0>>
            /\ counts = <<MANUAL_NUM_OLIGOMERS, MANUAL_NUM_IONS, MANUAL_NUM_WATERS>>
            /\ stdout # <<>>
            /\ stdout[1].msg = "fallback_warning"
        /\ Len(atom_lines) >= atoms_per_oligomer =>
            /\ detected[1] >= 1
            /\ counts = detected

\* the fallback taken on a stream that is not empty
C7_Witness ==
    /\ pc = "loop"
    /\ detected = <<0, 0, 0>>
    /\ Len(atom_lines) > 0
    /\ num_oligomers = MANUAL_NUM_OLIGOMERS

\* C8 as stated (extraction artifact naming): once the first oligomer is
\* complete, line k of the extraction artifact carries the template's atom
\* name of position k.
C8_Original ==
    (Prepared /\ atom_counter >= atoms_per_oligomer) =>
        \A k \in 1..atoms_per_oligomer :
            /\ k <= Len(f_extract)
            /\ strip(f_extract[k].name) = oligomer_info[k].name

\* C8 as amended: line k of the extraction artifact carries, in its name
\* column, the element symbol of the template at position k (the classified
\* element of the input record, which the mismatch check has found equal to
\* it), and once the first oligomer is complete there is such a line for every
\* position of the template.
C8_ExtractionNames ==
    Prepared =>
        /\ \A k \in 1..Len(f_extract) :
            /\ k <= atoms_per_oligomer
            /\ strip(f_extract[k].name) = oligomer_info[k].element
        /\ atom_counter >= atoms_per_oligomer => Len(f_extract) = atoms_per_oligomer

\* the artifact of a two-atom template, complete
C8_Witness ==
    /\ pc = "loop"
    /\ atoms_per_oligomer = 2
    /\ atom_counter >= 2
    /\ Len(f_extract) = 2

\* C9 (extraction artifact shape): the extraction artifact holds ATOM lines
\* only, with serials 1, 2, ... in order, residue name MOL and residue number
\* 1; once the first oligomer is complete it holds exactly N lines, its handle
\* is closed and it stays so for the rest of the run.
C9_ExtractionShape ==
    Prepared =>
        /\ \A k \in 1..Len(f_extract) :
            /\ f_extract[k].rec = "ATOM"
            /\ f_extract[k].serial = k
            /\ f_extract[k].resSeq = 1
            /\ f_extract[k].resName = <<"M","O","L">>
        /\ atom_counter < atoms_per_oligomer => Len(f_extract) = atom_counter
        /\ atom_counter >= atoms_per_oligomer =>
            /\ Len(f_extract) = atoms_per_oligomer
            /\ ~f_extract_open

\* records of a later oligomer or of an ion processed after the artifact closed
C9_Witness ==
    /\ atoms_per_oligomer = 2
    /\ atom_counter > 2
    /\ Len(f_extract) = 2

\* C10 as stated (idempotence of naming): when a run has completed without
\* error, the run on its main output with the same template does not abort and
\* ends with the same counts and the same residue groupings (boundaries, names,
\* residue numbers and serials).
C10_Idempotent ==
    run = 2 =>
        /\ pc # "exit"
        /\ pc = "finished" =>
            (counts = first.counts /\ Groupings(fout) = Groupings(first.fout))

\* the record carries an ion name, in either case of letters, as atom name or
\* as residue name
IonNamed(l) ==
    \E nm \in {strip(l.name), strip(l.resName)} : upper(nm) \in ION_NAMES

\* the stream consists of u oligomers (the template's elements, the same names
\* in every oligomer), then i chloride ion records, then w waters O,H,H
Shape(u, i, w) ==
    LET n == atoms_per_oligomer IN
    /\ Len(atom_lines) = u * n + i + 3 * w
    /\ \A b \in 0..(u - 1) : \A j \in 1..n :
        /\ get_pdb_element(atom_lines[b * n + j]) = oligomer_info[j].element
        /\ strip(atom_lines[b * n + j].name) = strip(atom_lines[j].name)
    /\ \A j \in 1..i :
        /\ IonNamed(atom_lines[u * n + j])
        /\ get_pdb_element(atom_lines[u * n + j]) = <<"C","l">>
    /\ \A b \in 0..(w - 1) : \A j \in 1..3 :
        get_pdb_element(atom_lines[u * n + i + 3 * b + j]) = water_pattern[j]

\* what follows the u oligomers cannot be taken for one more oligomer, and
\* the first water cannot be taken for an ion
Separated(u, i, w) ==
    LET n == atoms_per_oligomer IN
    /\ i + 3 * w >= n =>
        \E j \in 1..n : strip(atom_lines[u * n + j].name) # strip(atom_lines[j].name)
    /\ w > 0 => ~IonNamed(atom_lines[u * n + i + 1])

\* C6 as stated (detection symmetry): for a stream of u oligomers, i ions and
\* w waters in that order, auto_detect_counts returns (u, i, w).
C6_Original ==
    Prepared =>
        \A u \in 0..MaxUnits, i \in 0..MaxIons, w \in 0..MaxWaters :
            Shape(u, i, w) => detected = <<u, i, w>>

\* C6 as amended: for a stream of u >= 1 oligomers with the same atom names in
\* every oligomer, then i ion records, then w waters, in which the records
\* after the last oligomer do not repeat the oligomer's name sequence and the
\* first water record carries no ion name, auto_detect_counts returns
\* (u, i, w); the stream of 3 five-atom oligomers C,C,O,N,H, 2 chlorides and
\* 4 waters gives (3, 2, 4).
C6_DetectionSymmetry ==
    Prepared =>
        \A u \in 1..MaxUnits, i \in 0..MaxIons, w \in 0..MaxWaters :
            (Shape(u, i, w) /\ Separated(u, i, w)) => detected = <<u, i, w>>

\* the stream of 3 five-atom oligomers, 2 ions and 4 waters, detected
C6_Witness ==
    /\ Prepared
    /\ atoms_per_oligomer = 5
    /\ Len(atom_lines) = 29
    /\ Shape(3, 2, 4)
    /\ detected = <<3, 2, 4>>

\* C11 as stated (mismatch report location): a run that ends on a pattern
\* mismatch, in whichever phase, has reported the 1-based number that the
\* offending record has as a line of the input file, whatever lines precede it
\* there, together with the element the phase expected and the element found.
C11_MismatchLocation ==
    (pc = "exit" /\ Prepared /\ LastMsg.msg \in MismatchMsgs) =>
        /\ LastMsg.line = file_line_of(line_num)
        /\ LastMsg.expected = phase_expected
        /\ LastMsg.found = get_pdb_element(atom_lines[line_num])

\* C12 as stated (handles released on every exit path): when process_pdb has
\* ended, by completing or by sys.exit(1) anywhere, no handle it opened is
\* still open.  (The template and the input are opened in with-blocks that
\* Start enters and leaves; the main output and the extraction artifact are
\* the handles that live across steps.)
C12_HandlesReleased ==
    pc \in {"exit", "finished"} =>
        /\ fout_handle # "open"
        /\ ~f_extract_open

\* C13 (abort before output on missing files): when the template or the input
\* file is missing, the process never gets past its start: it exits with the
\* error of the file that is missing (the template's first), and neither the
\* main output nor the extraction artifact has been opened or written.
C13_AbortBeforeOutput ==
    (~mol2_template.exists \/ ~input_pdb.exists) =>
        /\ pc \in {"start", "exit"}
        /\ fout_handle = "none"
        /\ ~f_extract_open
        /\ fout = <<>>
        /\ f_extract = <<>>
        /\ pc = "exit" =>
            /\ Len(stdout) = 1
            /\ LastMsg.msg = IF ~mol2_template.exists THEN "template_not_found"
                              ELSE "input_not_found"

\* the template was loaded, the input was not found, the process has exited
C13_Witness ==
    /\ pc = "exit"
    /\ mol2_template.exists
    /\ ~input_pdb.exists
    /\ oligomer_info # <<>>

HasMsg(m) == \E k \in 1..Len(stdout) : stdout[k].msg = m

\* C14 as stated (residual-input warning): a run that reaches "done" with atom
\* records left unconsumed does not fail and logs a warning about the
\* residual records; a run that ends with an incomplete residue in the buffer
\* logs a warning and still finishes.
C14_ResidualWarning ==
    /\ current_mol_type = "done" => pc # "exit"
    /\ (pc = "finished" /\ current_mol_type = "done" /\ atom_counter < Len(atom_lines)) =>
            HasMsg("residual_records_warning")
    /\ (pc = "finished" /\ current_residue_lines # <<>>) =>
            HasMsg("incomplete_residue_warning")

\* C15 as stated (unit phase skipped when empty): when the reconstruction runs
\* with num_oligomers = 0, no record is processed in the oligomer phase: once
\* a record has been taken the cursor is not in that phase, nothing has been
\* written to the extraction artifact and no oligomer mismatch was reported.
C15_UnitPhaseSkipped ==
    (Prepared /\ num_oligomers = 0 /\ line_num >= 1) =>
        /\ current_mol_type # "oligomer"
        /\ f_extract = <<>>
        /\ \A k \in 1..Len(stdout) : stdout[k].msg # "oligomer_mismatch"

\* the phase in which the record after c accepted records is processed, by the
\* counts alone
phase_after(c) ==
    LET U == num_oligomers * atoms_per_oligomer
        I == num_ions
        W == 3 * num_waters
    IN  IF c < U THEN "oligomer"
        ELSE IF c < U + I THEN "ion"
        ELSE IF c < U + I + W THEN "water"
        ELSE "done"

\* C16 (phase transitions at count boundaries): with num_oligomers >= 1, the
\* cursor is in the oligomer phase exactly until the num_oligomers-th oligomer
\* has closed, then in the ion phase for exactly num_ions records, then in the
\* water phase for exactly num_waters groups of three, then "done"; a phase
\* whose count is 0 is never entered.  Inside a phase mol_idx and
\* atom_in_mol_idx count the residues closed and the records of the open one.
C16_PhaseBoundaries ==
    (Prepared /\ num_oligomers >= 1) =>
        LET n == atoms_per_oligomer
            c == atom_counter
            U == num_oligomers * n
        IN  /\ current_mol_type = phase_after(c)
            /\ current_mol_type = "ion" => num_ions > 0
            /\ current_mol_type = "water" => num_waters > 0
            /\ current_mol_type = "oligomer" =>
                    (mol_idx = c \div n /\ atom_in_mol_idx = c % n)
            /\ current_mol_type = "ion" => mol_idx = c - U
            /\ current_mol_type = "water" =>
                    /\ mol_idx = (c - U - num_ions) \div 3
                    /\ atom_in_mol_idx = (c - U - num_ions) % 3

\* a run through all three phases, each with two residues or more
C16_Witness ==
    /\ pc = "finished"
    /\ current_mol_type = "done"
    /\ num_oligomers >= 2
    /\ num_ions >= 2
    /\ num_waters >= 2
    /\ atoms_per_oligomer = 2

\* the number of atom lines a residue of the main output has, by its residue name
residue_size(l) ==
    IF l.resName = <<"M","O","L">> THEN atoms_per_oligomer
    ELSE IF l.resName = ljust3(ion_resname) THEN 1
    ELSE 3

\* first and last position of the run of ATOM lines of file f around position p
block_start(f, p) ==
    CHOOSE q \in 1..p :
        /\ \A r \in q..p : IsAtomLine(f[r])
        /\ (q = 1 \/ ~IsAtomLine(f[q - 1]))

block_end(f, p) ==
    CHOOSE q \in p..Len(f) :
        /\ \A r \in p..q : IsAtomLine(f[r])
        /\ (q = Len(f) \/ ~IsAtomLine(f[q + 1]))

\* C17 (only closed residues are written): at every point of every run the
\* ATOM lines of the main output come in whole residues: every run of ATOM
\* lines has the size of its residue kind (atoms_per_oligomer, 1 or 3), one
\* residue name and one residue number, and is directly followed by a TER
\* line; a TER line directly follows an ATOM line.  The records of the residue
\* being built are in the buffer only, which holds ATOM lines only, and they
\* are never written when the input ends: output and buffer together hold one
\* line per accepted record, at the end of the run as well.
C17_ClosedResidues ==
    /\ \A p \in 1..Len(fout) :
        /\ IsAtomLine(fout[p]) =>
            LET a == block_start(fout, p)
                b == block_end(fout, p)
            IN  /\ b - a + 1 = residue_size(fout[p])
                /\ \A r \in a..b : /\ fout[r].resName = fout[p].resName
                                     /\ fout[r].resSeq = fout[p].resSeq
                /\ b < Len(fout)
                /\ fout[b + 1] = TER
        /\ fout[p] = TER => (p > 1 /\ IsAtomLine(fout[p - 1]))
    /\ \A r \in 1..Len(current_residue_lines) : IsAtomLine(current_residue_lines[r])
    /\ Prepared =>
        /\ Len(current_residue_lines) = atom_in_mol_idx
        /\ NumAtomLines(fout) + Len(current_residue_lines) = atom_counter
        /\ current_mol_type = "oligomer" => Len(current_residue_lines) < atoms_per_oligomer
        /\ current_mol_type = "water" => Len(current_residue_lines) < 3
        /\ current_mol_type \in {"ion", "done"} => current_residue_lines = <<>>

\* the second oligomer of two atoms being built after the first was written
C17_Witness ==
    /\ pc = "loop"
    /\ atoms_per_oligomer = 2
    /\ current_residue_lines # <<>>
    /\ NumAtomLines(fout) = 2

\* C18 (coordinate parse failure is fatal in every phase): a record whose
\* coordinates do not parse, taken by the loop in the oligomer, ion or water
\* phase, ends the run at that record with the coordinate error, whatever its
\* element is: the loop never goes past it, and neither it nor a later
\* record is in the main output or the extraction artifact.
C18_CoordinateFatal ==
    Prepared =>
        \A k \in 1..Len(atom_lines) :
            (atom_lines[k].xyz = "bad" /\ line_num >= k /\ current_mol_type # "done") =>
                /\ line_num = k
                /\ pc = "exit"
                /\ LastMsg.msg = "invalid_coordinates"
                /\ LastMsg.line = k
                /\ atom_counter = k - 1
                /\ NumAtomLines(fout) + Len(current_residue_lines) = k - 1
                /\ Len(f_extract) <= k - 1
                /\ \A p \in 1..Len(fout) : fout[p].xyz # "bad"
                /\ \A p \in 1..Len(f_extract) : f_extract[p].xyz # "bad"

\* the coordinate error met in the ion phase, on a record whose element is
\* not the ion's either
C18_Witness ==
    /\ pc = "exit"
    /\ current_mol_type = "ion"
    /\ LastMsg.msg = "invalid_coordinates"
    /\ get_pdb_element(atom_lines[line_num]) # <<"C","l">>

\* C19 (aborted output is never marked complete): the END line is in the main
\* output of no run that has not finished, so of no run that ended by
\* sys.exit(1); a finished run has written it exactly once, as the last line.
C19_EndMarker ==
    /\ pc # "finished" => CountKind(fout, Len(fout), "END") = 0
    /\ pc = "finished" =>
        /\ fout # <<>>
        /\ fout[Len(fout)] = END
        /\ CountKind(fout, Len(fout), "END") = 1

\* a run aborted after it had written a residue
C19_Witness ==
    /\ pc = "exit"
    /\ NumAtomLines(fout) >= 1
    /\ LastMsg.msg \in MismatchMsgs

\* C20 as stated (detection terminates): for every record list and every
\* atoms_per_oligomer >= 0 the oligomer scan ends after finitely many
\* iterations: an oligomer is counted only by moving the cursor over its
\* records, so the scan never counts more oligomers than there are records
\* (and returns after at most one iteration more than that).
C20_DetectionTerminates ==
    num_olig <= Len(atom_lines)

\* ---------------------------------------------------------------------------
\* Detector against reconstructor
\* ---------------------------------------------------------------------------

all_coords_parse == \A k \in 1..Len(atom_lines) : atom_lines[k].xyz # "bad"

\* the record offset at which the water phase stands
water_offset ==
    num_oligomers * atoms_per_oligomer + num_ions + 3 * mol_idx + atom_in_mol_idx

\* C21: whenever the detector returns counts other than (0,0,0) and every
\* record's coordinates parse, the reconstruction driven by those counts
\* never aborts and ends in phase "done".
C21_DetectorReconstructorAgree ==
    (Prepared /\ detected # <<0, 0, 0>> /\ all_coords_parse) =>
        /\ pc # "exit"
        /\ pc = "finished" => current_mol_type = "done"

\* C22: under detected counts the water phase never aborts, and the record
\* it is about to examine is the one the detector matched against
\* water_pattern at the same offset.
C22_WaterPhaseSound ==
    (Prepared /\ detected # <<0, 0, 0>>) =>
        /\ ~HasMsg("water_mismatch")
        /\ (pc = "loop" /\ current_mol_type = "water") =>
               /\ line_num = water_offset
               /\ line_num < Len(atom_lines)
               /\ get_pdb_element(atom_lines[line_num + 1]) =
                      water_pattern[atom_in_mol_idx + 1]

\* a detected run went through units, ions and at least two waters to the end
C22_Witness ==
    /\ pc = "finished"
    /\ detected # <<0, 0, 0>>
    /\ current_mol_type = "done"
    /\ num_oligomers >= 1
    /\ num_ions >= 1
    /\ num_waters >= 2
    /\ atom_counter = total_counted

\* ---------------------------------------------------------------------------
\* The LAMMPS loop
\* ---------------------------------------------------------------------------

MDFailureMsgs == {"template_not_found", "missing_input", "write_error", "lammps_error"}

\* a failure was reported
MDFailed == \E k \in 1..Len(md_stdout) : md_stdout[k].msg \in MDFailureMsgs

\* the k-th LAMMPS call is iteration k-1, its input file existed when it was
\* made, every call before it returned 0, and its input reads <prefix>{i}.data
\* and writes <prefix>{i+1}.data
MDRunsInOrder ==
    \A k \in 1..Len(lammps_runs) :
        LET r == lammps_runs[k]
        IN  /\ r.iteration = k - 1
            /\ r.iteration \in r.disk
            /\ \A j \in 1..(k - 1) : lammps_runs[j].exit_code = 0
            /\ \A n \in 1..Len(r.input) :
                /\ r.input[n].head = "read_data" => r.input[n].arg = DataFile(r.iteration)
                /\ r.input[n].head = "write_data" =>
                       r.input[n].arg = DataFile(r.iteration + 1)

\* C23: LAMMPS runs for iteration i only if <prefix>{i}.data exists then and
\* every earlier call returned 0; iterations run in increasing order, at most
\* num_iterations of them; once a failure is reported the loop is over and
\* LAMMPS is never called again.
C23_StopsAtFirstFailure ==
    /\ [](/\ MDRunsInOrder
          /\ Len(lammps_runs) <= num_iterations
          /\ MDFailed => md_pc \in {"finished", "exit"})
    /\ [][MDFailed => /\ lammps_runs' = lammps_runs
                      /\ iteration' = iteration]_vars

\* two successful iterations, then a third whose LAMMPS call failed
C23_Witness ==
    /\ md_pc = "finished"
    /\ Len(lammps_runs) = 3
    /\ lammps_runs[3].exit_code # 0
    /\ written_by(lammps_runs[3].input) # {}
    /\ MDFailed

\* ---------------------------------------------------------------------------
\* The QM/MM driver
\* ---------------------------------------------------------------------------

\* the loop has left molecule i behind
Processed(i) == qm_pc \notin {"idle", "start"} /\ mol > i

RunsOf(i, step) ==
    Cardinality({ k \in 1..Len(cp2k_runs) : cp2k_runs[k] = <<i, step>> })

GensOf(i, step) ==
    Cardinality({ k \in 1..Len(generated) : generated[k].new_file = <<i, step>> })

\* the file exists and holds "PROGRAM ENDED AT"
HasFooter(out) == out.exists /\ out.footer

\* both outputs of molecule i hold a strength and both wavefunction files exist
Gate(i) ==
    /\ \A side \in Sides : /\ out_files[i][side].exists
                           /\ out_files[i][side].strength # None
                           /\ <<i, side>> \in wfn_files

StepRank(step) == IF step = "GACA" THEN 1 ELSE IF step = "GACB" THEN 2 ELSE 3

\* run a comes before run b: an earlier molecule, or an earlier step of the same
Before(a, b) == a[1] < b[1] \/ (a[1] = b[1] /\ StepRank(a[2]) < StepRank(b[2]))

\* C24: the coupling input of molecule i is generated and CP2K run on it only
\* if both side outputs of i gave a strength and both wavefunction files exist;
\* the input then carries those strengths and files; a molecule whose gate
\* fails is left without coupling and the loop goes on to the last molecule,
\* each side of every molecule being run unless finished before; the runs
\* follow the order GACA, GACB, coupling, molecule after molecule.
C24_CouplingGated ==
    /\ \A i \in Mols :
        (RunsOf(i, "AB_coupling") > 0 \/ GensOf(i, "AB_coupling") > 0) => Gate(i)
    /\ \A k \in 1..Len(generated) :
        LET g == generated[k]
        IN  g.new_file[2] = "AB_coupling" =>
                /\ g.strength_map = [side \in Sides |->
                                        out_files[g.new_file[1]][side].strength]
                /\ g.wfn_replace_map = [side \in Sides |-> <<g.new_file[1], side>>]
    /\ \A i \in Mols : \A side \in Sides :
        Processed(i) => \/ HasFooter(out_files_at_start[i][side])
                        \/ RunsOf(i, side) = 1
    /\ (qm_pc = "returned" /\ {"GACA", "AB_coupling"} \subseteq templates_found) =>
            \A i \in Mols : Processed(i)
    /\ \A j \in 1..Len(cp2k_runs) : \A k \in (j + 1)..Len(cp2k_runs) :
            Before(cp2k_runs[j], cp2k_runs[k])

\* the first molecule was refused coupling for a missing wavefunction file,
\* the next one had all three steps run
C24_Witness ==
    /\ qm_pc = "returned"
    /\ \E k \in 1..Len(qm_stdout) : qm_stdout[k] = QMMsg("wfn_missing", START_MOL)
    /\ RunsOf(START_MOL, "GACA") = 1
    /\ RunsOf(START_MOL, "AB_coupling") = 0
    /\ \A step \in Steps : RunsOf(START_MOL + 1, step) = 1

\* nothing on disk at the start was left unfinished
AllFinishedAtStart ==
    \A i \in Mols : \A step \in Steps : HasFooter(out_files_at_start[i][step])

\* C25 as stated: for every molecule the loop has passed and each of its three
\* steps, a finished output means no input generated and no CP2K run, and an
\* absent or unfinished output means the input generated and CP2K run exactly
\* once.
C25_Original ==
    \A i \in Mols : \A step \in Steps :
        Processed(i) =>
            IF HasFooter(out_files_at_start[i][step])
            THEN RunsOf(i, step) = 0 /\ GensOf(i, step) = 0
            ELSE RunsOf(i, step) = 1 /\ GensOf(i, step) = 1

\* C25: for every molecule the loop has passed, a finished output means no
\* input generated and no CP2K run for that step; an absent or unfinished
\* GACA or GACB output means input generated and CP2K run exactly once; an
\* absent or unfinished coupling output means the same when the gate of the
\* molecule passes, and neither generation nor run when it fails. With every
\* output finished at the start CP2K is never run.
C25_ResumeSkipsFinished ==
    /\ \A i \in Mols : \A step \in Steps :
        Processed(i) =>
            IF HasFooter(out_files_at_start[i][step])
            THEN RunsOf(i, step) = 0 /\ GensOf(i, step) = 0
            ELSE IF step \in Sides \/ Gate(i)
            THEN RunsOf(i, step) = 1 /\ GensOf(i, step) = 1
            ELSE RunsOf(i, step) = 0 /\ GensOf(i, step) = 0
    /\ AllFinishedAtStart => cp2k_runs = <<>> /\ generated = <<>>

\* the first molecule was finished before the run and nothing was run for it;
\* the second had an interrupted GACA output and all three steps run once
C25_Witness ==
    /\ qm_pc = "returned"
    /\ \A step \in Steps : /\ HasFooter(out_files_at_start[START_MOL][step])
                           /\ RunsOf(START_MOL, step) = 0
    /\ out_files_at_start[START_MOL + 1]["GACA"].exists
    /\ \A step \in Steps : /\ ~HasFooter(out_files_at_start[START_MOL + 1][step])
                           /\ RunsOf(START_MOL + 1, step) = 1
                           /\ GensOf(START_MOL + 1, step) = 1

====
